---- MODULE Spec2Model ----
(***************************************************************************)
(* Model of the problem3 pipeline: the Processor (processor/process.py)    *)
(* and the Analyzer (analyzer/analyze.py), two independent processes that  *)
(* synchronise only through marker files on a shared filesystem.           *)
(*                                                                         *)
(* Strings are sequences of one-character strings, so that sorting,        *)
(* str.replace, str.split and the regular expressions of strip_html are    *)
(* computed character by character as Python computes them.                *)
(***************************************************************************)
EXTENDS Integers, Sequences, FiniteSets, TLC

(***************************************************************************)
(* Bounds of the model.                                                    *)
(***************************************************************************)
\* Largest number of entries of /shared/raw in a pipeline run (Spec).
MaxRaw == 2
\* Largest number of entries of /shared/processed handed to the Analyzer
\* alone (SpecAnalyzer).
MaxDocs == 3

(***************************************************************************)
(* Program constants.                                                      *)
(***************************************************************************)
\* total_counter.most_common(100)
TopWords == 100
\* bigram_counter.most_common(50)
TopBigrams == 50

(***************************************************************************)
(* Characters and strings.                                                 *)
(***************************************************************************)
\* Code points of the characters the model's strings are made of: Python
\* compares str values code point by code point.
Ord(c) ==
    CASE c = "\t" -> 9   [] c = "\n" -> 10  [] c = "\r" -> 13  [] c = " " -> 32
      [] c = "!" -> 33   [] c = "\"" -> 34  [] c = "'" -> 39   [] c = "-" -> 45
      [] c = "." -> 46   [] c = "/" -> 47   [] c = "0" -> 48   [] c = "1" -> 49
      [] c = "2" -> 50   [] c = "3" -> 51   [] c = "4" -> 52   [] c = "5" -> 53
      [] c = "6" -> 54   [] c = "7" -> 55   [] c = "8" -> 56   [] c = "9" -> 57
      [] c = "<" -> 60   [] c = "=" -> 61   [] c = ">" -> 62   [] c = "?" -> 63
      [] c = "C" -> 67   [] c = "I" -> 73   [] c = "P" -> 80   [] c = "R" -> 82
      [] c = "S" -> 83   [] c = "T" -> 84
      [] c = "a" -> 97   [] c = "b" -> 98   [] c = "c" -> 99   [] c = "d" -> 100
      [] c = "e" -> 101  [] c = "f" -> 102  [] c = "g" -> 103  [] c = "h" -> 104
      [] c = "i" -> 105  [] c = "j" -> 106  [] c = "k" -> 107  [] c = "l" -> 108
      [] c = "m" -> 109  [] c = "n" -> 110  [] c = "o" -> 111  [] c = "p" -> 112
      [] c = "r" -> 114  [] c = "s" -> 115  [] c = "t" -> 116  [] c = "x" -> 120
      [] c = "y" -> 121

\* re.IGNORECASE: the lower-case form of a character.
Lower(c) ==
    CASE c = "A" -> "a" [] c = "B" -> "b" [] c = "C" -> "c" [] c = "D" -> "d"
      [] c = "E" -> "e" [] c = "F" -> "f" [] c = "G" -> "g" [] c = "H" -> "h"
      [] c = "I" -> "i" [] c = "J" -> "j" [] c = "K" -> "k" [] c = "L" -> "l"
      [] c = "M" -> "m" [] c = "N" -> "n" [] c = "O" -> "o" [] c = "P" -> "p"
      [] c = "Q" -> "q" [] c = "R" -> "r" [] c = "S" -> "s" [] c = "T" -> "t"
      [] c = "U" -> "u" [] c = "V" -> "v" [] c = "W" -> "w" [] c = "X" -> "x"
      [] c = "Y" -> "y" [] c = "Z" -> "z"
      [] OTHER -> c

\* \s of the regular expressions, and the separators of str.split().
IsSpace(c) == c \in {" ", "\n", "\t", "\r"}

\* s[i:] in Python's terms, for a 1-based i.
Drop(s, i) == SubSeq(s, i, Len(s))

\* s < t for Python str values.
RECURSIVE StrLess(_, _)
StrLess(s, t) ==
    IF t = <<>> THEN FALSE
    ELSE IF s = <<>> THEN TRUE
    ELSE IF Ord(s[1]) # Ord(t[1]) THEN Ord(s[1]) < Ord(t[1])
    ELSE StrLess(Tail(s), Tail(t))

\* s.endswith(suffix)
EndsWith(s, suffix) ==
    /\ Len(s) >= Len(suffix)
    /\ SubSeq(s, Len(s) - Len(suffix) + 1, Len(s)) = suffix

\* Whether pat occurs in s at position i.
MatchAt(s, i, pat) ==
    /\ i + Len(pat) - 1 <= Len(s)
    /\ SubSeq(s, i, i + Len(pat) - 1) = pat

\* The same, ignoring case (pat is given in lower case).
MatchAtCI(s, i, pat) ==
    /\ i + Len(pat) - 1 <= Len(s)
    /\ \A k \in 1..Len(pat) : Lower(s[i + k - 1]) = pat[k]

\* s.replace(old, new): every non-overlapping occurrence, left to right.
RECURSIVE Replace(_, _, _)
Replace(s, old, new) ==
    IF s = <<>> THEN <<>>
    ELSE IF MatchAt(s, 1, old)
         THEN new \o Replace(Drop(s, Len(old) + 1), old, new)
         ELSE <<s[1]>> \o Replace(Tail(s), old, new)

\* sorted(names) for a set of str values.
RECURSIVE Sorted(_)
Sorted(names) ==
    IF names = {} THEN <<>>
    ELSE LET least == CHOOSE n \in names :
                         \A m \in names \ {n} : StrLess(n, m)
         IN  <<least>> \o Sorted(names \ {least})

\* The elements of a sequence.
Range(s) == {s[i] : i \in 1..Len(s)}

\* s.count(c) for a one-character c.
CountChar(s, c) == Cardinality({i \in 1..Len(s) : s[i] = c})

\* The least index of a non-whitespace character of s, or Len(s) + 1.
FirstNonSpace(s) ==
    LET hits == {j \in 1..Len(s) : ~IsSpace(s[j])}
    IN  IF hits = {} THEN Len(s) + 1 ELSE CHOOSE j \in hits : \A k \in hits : j <= k

\* str.split(): the maximal runs of non-whitespace characters, in order. A
\* string without whitespace is its own single run (none when empty); any
\* other is cut at one of its whitespace characters, the one nearest its
\* middle, and the runs of the two sides follow one another.
RECURSIVE Split(_)
Split(s) ==
    LET spaces == {j \in 1..Len(s) : IsSpace(s[j])}
        mid == (Len(s) + 1) \div 2
        Dist(j) == IF j < mid THEN mid - j ELSE j - mid
    IN  IF spaces = {} THEN (IF s = <<>> THEN <<>> ELSE <<s>>)
        ELSE LET m == CHOOSE j \in spaces : \A k \in spaces : Dist(j) <= Dist(k)
             IN  Split(SubSeq(s, 1, m - 1)) \o Split(Drop(s, m + 1))

\* " ".join(words)
RECURSIVE Join(_)
Join(words) ==
    IF words = <<>> THEN <<>>
    ELSE IF Len(words) = 1 THEN words[1]
    ELSE LET h == Len(words) \div 2
         IN  Join(SubSeq(words, 1, h)) \o <<" ">> \o Join(Drop(words, h + 1))

\* sum(numbers)
RECURSIVE Sum(_)
Sum(numbers) ==
    IF numbers = <<>> THEN 0
    ELSE IF Len(numbers) = 1 THEN numbers[1]
    ELSE LET h == Len(numbers) \div 2
         IN  Sum(SubSeq(numbers, 1, h)) + Sum(Drop(numbers, h + 1))

\* The Python quotient a / b, kept exact as a fraction.
Frac(a, b) == [num |-> a, den |-> b]
\* 0.0 and 0
Zero == Frac(0, 1)
FracEq(x, y) == x.num * y.den = y.num * x.den
FracMul(x, y) == Frac(x.num * y.num, x.den * y.den)

(***************************************************************************)
(* processor/process.py: strip_html and get_statistics.                    *)
(***************************************************************************)
\* The least index j >= from with s[j] = c, or 0 when there is none.
FirstChar(s, from, c) ==
    LET hits == {j \in from..Len(s) : s[j] = c}
    IN  IF hits = {} THEN 0 ELSE CHOOSE j \in hits : \A k \in hits : j <= k

\* The least index k >= from where pat occurs in s ignoring case, or 0.
FirstMatchCI(s, from, pat) ==
    LET hits == {k \in from..Len(s) : MatchAtCI(s, k, pat)}
    IN  IF hits = {} THEN 0 ELSE CHOOSE k \in hits : \A j \in hits : k <= j

\* Where a match of <open[^>]*>.*?close that starts at position i of s ends,
\* or 0 when none starts there (re.DOTALL | re.IGNORECASE): [^>]* stops at
\* the first ">", .*? at the first close after it.
BlockEnd(s, i, open, close) ==
    IF ~MatchAtCI(s, i, open) THEN 0
    ELSE LET gt == FirstChar(s, i + Len(open), ">")
         IN  IF gt = 0 THEN 0
             ELSE LET k == FirstMatchCI(s, gt + 1, close)
                  IN  IF k = 0 THEN 0 ELSE k + Len(close) - 1

\* re.sub(r'<tag[^>]*>.*?</tag>', '', s, flags=re.DOTALL | re.IGNORECASE):
\* the leftmost match is removed, the search goes on after it.
RECURSIVE RemoveBlocks(_, _, _)
RemoveBlocks(s, open, close) ==
    LET starts == {i \in 1..Len(s) : BlockEnd(s, i, open, close) > 0}
    IN  IF starts = {} THEN s
        ELSE LET i == CHOOSE i \in starts : \A j \in starts : i <= j
             IN  SubSeq(s, 1, i - 1)
                     \o RemoveBlocks(Drop(s, BlockEnd(s, i, open, close) + 1),
                                     open, close)

\* The length of the longest run of [^'" >] that starts at position q of s.
RECURSIVE RunLen(_, _)
RunLen(s, q) ==
    IF q > Len(s) \/ s[q] \in {"'", "\"", " ", ">"} THEN 0
    ELSE 1 + RunLen(s, q + 1)

\* Where the value captured by attr['"]?([^'" >]+) at position i of s starts,
\* or 0 when the pattern does not match there: the quote is optional, the
\* value has at least one character.
AttrValue(s, i, attr) ==
    IF ~MatchAtCI(s, i, attr) THEN 0
    ELSE LET p == i + Len(attr)
             q == IF p <= Len(s) /\ s[p] \in {"'", "\""} THEN p + 1 ELSE p
         IN  IF RunLen(s, q) > 0 THEN q ELSE 0

\* re.findall(r'attr[\'"]?([^\'" >]+)', s, flags=re.IGNORECASE), attr being
\* href= or src=: the captured values, in order, duplicates kept.
RECURSIVE FindAttr(_, _)
FindAttr(s, attr) ==
    LET starts == {i \in 1..Len(s) : AttrValue(s, i, attr) > 0}
    IN  IF starts = {} THEN <<>>
        ELSE LET i == CHOOSE i \in starts : \A j \in starts : i <= j
                 q == AttrValue(s, i, attr)
                 n == RunLen(s, q)
             IN  <<SubSeq(s, q, q + n - 1)>> \o FindAttr(Drop(s, q + n), attr)

\* Whether <[^>]+> matches at position i of s.
TagAt(s, i) == s[i] = "<" /\ FirstChar(s, i + 1, ">") >= i + 2

\* re.sub(r'<[^>]+>', ' ', s)
RECURSIVE StripTags(_)
StripTags(s) ==
    LET starts == {i \in 1..Len(s) : TagAt(s, i)}
    IN  IF starts = {} THEN s
        ELSE LET i == CHOOSE i \in starts : \A j \in starts : i <= j
             IN  SubSeq(s, 1, i - 1) \o <<" ">>
                     \o StripTags(Drop(s, FirstChar(s, i + 1, ">") + 1))

\* s with its leading whitespace removed.
LStrip(s) == Drop(s, FirstNonSpace(s))

\* s with its trailing whitespace removed.
RStrip(s) ==
    LET hits == {j \in 1..Len(s) : ~IsSpace(s[j])}
    IN  IF hits = {} THEN <<>>
        ELSE SubSeq(s, 1, CHOOSE j \in hits : \A k \in hits : k <= j)

\* s.strip()
Strip(s) == RStrip(LStrip(s))

\* re.sub(r'\s+', ' ', s): a run of whitespace becomes one space.
CollapseWs(s) ==
    LET marked == [i \in 1..Len(s) |->
                      IF ~IsSpace(s[i]) THEN s[i]
                      ELSE IF i > 1 /\ IsSpace(s[i - 1]) THEN "dropped"
                      ELSE " "]
        Kept(c) == c # "dropped"
    IN  SelectSeq(marked, Kept)

ScriptOpen == <<"<", "s", "c", "r", "i", "p", "t">>
ScriptClose == <<"<", "/", "s", "c", "r", "i", "p", "t", ">">>
StyleOpen == <<"<", "s", "t", "y", "l", "e">>
StyleClose == <<"<", "/", "s", "t", "y", "l", "e", ">">>
Href == <<"h", "r", "e", "f", "=">>
Src == <<"s", "r", "c", "=">>

\* strip_html(html_content): (text, links, images)
strip_html(html_content) ==
    LET noscript == RemoveBlocks(html_content, ScriptOpen, ScriptClose)
        nostyle == RemoveBlocks(noscript, StyleOpen, StyleClose)
    IN  [text |-> Strip(CollapseWs(StripTags(nostyle))),
         links |-> FindAttr(nostyle, Href),
         images |-> FindAttr(nostyle, Src)]

\* The least index k where pat occurs in s, or 0.
FirstMatch(s, pat) ==
    LET hits == {k \in 1..Len(s) : MatchAt(s, k, pat)}
    IN  IF hits = {} THEN 0 ELSE CHOOSE k \in hits : \A j \in hits : k <= j

\* s.split(sep) for a non-empty sep.
RECURSIVE SplitSep(_, _)
SplitSep(s, sep) ==
    LET k == FirstMatch(s, sep)
    IN  IF k = 0 THEN <<s>>
        ELSE <<SubSeq(s, 1, k - 1)>> \o SplitSep(Drop(s, k + Len(sep)), sep)

\* sum(len(w) for w in words)
SumLen(words) == Sum([i \in 1..Len(words) |-> Len(words[i])])

\* text.count('.') + text.count('!') + text.count('?')
SentenceMarks(text) ==
    CountChar(text, ".") + CountChar(text, "!") + CountChar(text, "?")

\* get_statistics(text)
get_statistics(text) ==
    LET words == Split(text)
        word_count == Len(words)
        paras == SplitSep(text, <<"\n", "\n">>)
    IN  [word_count |-> word_count,
         sentence_count |-> SentenceMarks(text),
         paragraph_count |->
             Cardinality({i \in 1..Len(paras) : Strip(paras[i]) # <<>>}),
         avg_word_length |->
             IF word_count # 0 THEN Frac(SumLen(words), word_count) ELSE Zero]

(***************************************************************************)
(* The shared filesystem and the two processes.                            *)
(***************************************************************************)
VARIABLES
    fetch_complete,     \* whether /shared/status/fetch_complete.json exists
    rawExists,          \* whether the directory /shared/raw exists
    raw,                \* /shared/raw: file name -> content
    processedExists,    \* whether the directory /shared/processed exists
    processed,          \* /shared/processed: file name -> file
    process_complete,   \* the file /shared/status/process_complete.json
    analysisExists,     \* whether the directory /shared/analysis exists
    report,             \* the file /shared/analysis/final_report.json
    marker0,            \* whether process_complete.json existed at the start
    report0,            \* final_report.json as it was at the start
    ppc,                \* Processor: where it is in process.py
    pcrashAt,           \* Processor: where it was when it stopped on an error
    html_files,         \* Processor: main's html_files
    pidx,               \* Processor: position of the for loop in html_files
    result,             \* Processor: main's result
    processed_files,    \* Processor: main's processed_files
    apc,                \* Analyzer: where it is in analyze.py
    aerror,             \* Analyzer: the exception that ended it
    file_list,          \* Analyzer: main's file_list
    aidx,               \* Analyzer: position of the for loop in file_list
    docs_tokens,        \* Analyzer: main's docs_tokens
    total_counter,      \* Analyzer: main's total_counter
    bigram_counter,     \* Analyzer: main's bigram_counter
    texts_raw,          \* Analyzer: main's texts_raw
    areport             \* Analyzer: main's report

fsVars == <<fetch_complete, rawExists, raw, processedExists, processed,
            process_complete, analysisExists, report, marker0, report0>>
pVars == <<ppc, pcrashAt, html_files, pidx, result, processed_files>>
aVars == <<apc, aerror, file_list, aidx, docs_tokens, total_counter,
           bigram_counter, texts_raw, areport>>
vars == <<fsVars, pVars, aVars>>

\* A file is [exists, ok, data]: ok says that its JSON content is whole
\* (open(..., 'w') leaves it empty until json.dump has written it).
NoData == [none |-> TRUE]
Absent == [exists |-> FALSE, ok |-> FALSE, data |-> NoData]
Truncated == [exists |-> TRUE, ok |-> FALSE, data |-> NoData]
Written(data) == [exists |-> TRUE, ok |-> TRUE, data |-> data]

\* os.path.join(directory, name)
PathJoin(directory, name) == [dir |-> directory, name |-> name]

HTML_files == "/shared/raw"
processed_data_dir == "/shared/processed"

DotHtml == <<".", "h", "t", "m", "l">>
DotJson == <<".", "j", "s", "o", "n">>

\* datetime.now(timezone.utc).isoformat(): the run that took the timestamp.
PreviousRun == "previous run"
ThisRun == "this run"

\* The collections main starts from.
EmptyMap == [k \in {} |-> 0]
EmptyCounter == [keys |-> <<>>, cnt |-> EmptyMap]

\* file.replace(".html", ".json")
OutputName(file) == Replace(file, DotHtml, DotJson)

\* The result dict main builds for one file (lines 59-69).
MakeResult(file, content, now) ==
    LET r == strip_html(content)
    IN  [source_file |-> file,
         text |-> r.text,
         statistics |-> get_statistics(r.text),
         links |-> r.links,
         images |-> r.images,
         processed_at |-> now]

(***************************************************************************)
(* The Processor: processor/process.py.                                    *)
(***************************************************************************)
\* PImport that also removes the marker of a previous run.
PImport_Invalidate ==
    /\ ppc = "import"
    /\ processedExists' = TRUE
    /\ process_complete' = Absent
    /\ ppc' = "wait"
    /\ UNCHANGED <<fetch_complete, rawExists, raw, processed,
                   analysisExists, report, marker0, report0>>
    /\ UNCHANGED <<pcrashAt, html_files, pidx, result, processed_files>>
    /\ UNCHANGED aVars

\* Line 14, run when the module is loaded: os.makedirs(processed_data_dir).
PImport ==
    /\ ppc = "import"
    /\ processedExists' = TRUE
    /\ ppc' = "wait"
    /\ UNCHANGED <<fetch_complete, rawExists, raw, processed, process_complete,
                   analysisExists, report, marker0, report0>>
    /\ UNCHANGED <<pcrashAt, html_files, pidx, result, processed_files>>
    /\ UNCHANGED aVars

\* PWait without its barrier: the Processor goes on whether or not
\* fetch_complete.json exists.
PWait_NoBarrier ==
    /\ ppc = "wait"
    /\ ppc' = "list"
    /\ UNCHANGED fsVars
    /\ UNCHANGED <<pcrashAt, html_files, pidx, result, processed_files>>
    /\ UNCHANGED aVars

\* Lines 44-45: one turn of the polling loop on fetch_complete.json.
PWait ==
    /\ ppc = "wait"
    /\ ppc' = IF fetch_complete THEN "list" ELSE "wait"
    /\ UNCHANGED fsVars
    /\ UNCHANGED <<pcrashAt, html_files, pidx, result, processed_files>>
    /\ UNCHANGED aVars

\* Lines 47-53: create /shared/raw when missing, list and sort its .html files.
PList ==
    /\ ppc = "list"
    /\ rawExists' = TRUE
    /\ html_files' = Sorted({f \in DOMAIN raw : EndsWith(f, DotHtml)})
    /\ processed_files' = <<>>
    /\ pidx' = 1
    /\ ppc' = "loop"
    /\ UNCHANGED <<fetch_complete, raw, processedExists, processed,
                   process_complete, analysisExists, report, marker0, report0>>
    /\ UNCHANGED <<pcrashAt, result>>
    /\ UNCHANGED aVars

\* Lines 54-69: read the next file and build its result.
PRead ==
    /\ ppc = "loop"
    /\ pidx <= Len(html_files)
    /\ result' = MakeResult(html_files[pidx], raw[html_files[pidx]], ThisRun)
    /\ ppc' = "open"
    /\ UNCHANGED fsVars
    /\ UNCHANGED <<pcrashAt, html_files, pidx, processed_files>>
    /\ UNCHANGED aVars

\* Lines 71-72: open(output_file, 'w') creates or empties the artifact.
POpen ==
    /\ ppc = "open"
    /\ processedExists
    /\ LET name == OutputName(html_files[pidx])
       IN  processed' = [f \in DOMAIN processed \cup {name} |->
                            IF f = name THEN Truncated ELSE processed[f]]
    /\ ppc' = "dump"
    /\ UNCHANGED <<fetch_complete, rawExists, raw, processedExists,
                   process_complete, analysisExists, report, marker0, report0>>
    /\ UNCHANGED <<pcrashAt, html_files, pidx, result, processed_files>>
    /\ UNCHANGED aVars

\* Lines 73-76: json.dump writes the artifact, its path joins processed_files.
PDump ==
    /\ ppc = "dump"
    /\ LET name == OutputName(html_files[pidx])
       IN  /\ processed' = [processed EXCEPT ![name] = Written(result)]
           /\ processed_files' =
                  Append(processed_files, PathJoin(processed_data_dir, name))
    /\ pidx' = pidx + 1
    /\ ppc' = "loop"
    /\ UNCHANGED <<fetch_complete, rawExists, raw, processedExists,
                   process_complete, analysisExists, report, marker0, report0>>
    /\ UNCHANGED <<pcrashAt, html_files, result>>
    /\ UNCHANGED aVars

\* PMarkerOpen inside the loop: the marker is opened before the artifacts of
\* all the files are written.
PMarkerOpen_Early ==
    /\ ppc = "loop"
    /\ process_complete' = Truncated
    /\ ppc' = "marker"
    /\ UNCHANGED <<fetch_complete, rawExists, raw, processedExists, processed,
                   analysisExists, report, marker0, report0>>
    /\ UNCHANGED <<pcrashAt, html_files, pidx, result, processed_files>>
    /\ UNCHANGED aVars

\* Line 78, after the loop: open(process_complete_file, 'w').
PMarkerOpen ==
    /\ ppc = "loop"
    /\ pidx > Len(html_files)
    /\ process_complete' = Truncated
    /\ ppc' = "marker"
    /\ UNCHANGED <<fetch_complete, rawExists, raw, processedExists, processed,
                   analysisExists, report, marker0, report0>>
    /\ UNCHANGED <<pcrashAt, html_files, pidx, result, processed_files>>
    /\ UNCHANGED aVars

\* Lines 79-82: json.dump writes the marker.
PMarkerDump ==
    /\ ppc = "marker"
    /\ process_complete' =
           Written([timestamp |-> ThisRun, processed_files |-> processed_files])
    /\ ppc' = "done"
    /\ UNCHANGED <<fetch_complete, rawExists, raw, processedExists, processed,
                   analysisExists, report, marker0, report0>>
    /\ UNCHANGED <<pcrashAt, html_files, pidx, result, processed_files>>
    /\ UNCHANGED aVars

\* No exception is caught in process.py: an OSError of listdir, open, read or
\* write ends the process where it is.
PCrash ==
    /\ ppc \in {"list", "loop", "open", "dump", "marker"}
    /\ pcrashAt' = ppc
    /\ ppc' = "crashed"
    /\ UNCHANGED fsVars
    /\ UNCHANGED <<html_files, pidx, result, processed_files>>
    /\ UNCHANGED aVars

\* The upstream fetcher writes fetch_complete.json.
FetchComplete ==
    /\ ~fetch_complete
    /\ fetch_complete' = TRUE
    /\ UNCHANGED <<rawExists, raw, processedExists, processed, process_complete,
                   analysisExists, report, marker0, report0>>
    /\ UNCHANGED pVars
    /\ UNCHANGED aVars

(***************************************************************************)
(* The Analyzer: analyzer/analyze.py.                                      *)
(***************************************************************************)
INPUT_DIR == "/shared/processed"

\* jaccard_score on the token lists themselves: duplicates are not collapsed
\* in the size of the union.
jaccard_score_Lists(tokens_a, tokens_b) ==
    LET set_a == Range(tokens_a)
        set_b == Range(tokens_b)
    IN  IF ~(set_a # {} \/ set_b # {}) THEN Zero
        ELSE Frac(Cardinality(set_a \cap set_b),
                  Len(tokens_a) + Len(tokens_b) - Cardinality(set_a \cap set_b))

\* jaccard_score(tokens_a, tokens_b)
jaccard_score(tokens_a, tokens_b) ==
    LET set_a == Range(tokens_a)
        set_b == Range(tokens_b)
    IN  IF ~(set_a # {} \/ set_b # {}) THEN Zero
        ELSE Frac(Cardinality(set_a \cap set_b), Cardinality(set_a \cup set_b))

\* make_ngrams with range(len(words)): the last window is cut short, a
\* document of k words gives k n-grams.
make_ngrams_Short(words, n) ==
    [i \in 1..Len(words) |->
        Join(SubSeq(words, i, IF i + n - 1 < Len(words) THEN i + n - 1
                                                         ELSE Len(words)))]

\* make_ngrams(words, n)
make_ngrams(words, n) ==
    [i \in 1..(Len(words) - n + 1) |-> Join(SubSeq(words, i, i + n - 1))]

\* Counter.update(items): each item's count goes up by one per occurrence; a
\* Counter keeps its keys in insertion order, so the new keys follow the old
\* ones in the order of their first occurrence in items.
CounterUpdate(c, items) ==
    LET marked == [i \in 1..Len(items) |->
                      [item |-> items[i],
                       new |-> /\ items[i] \notin DOMAIN c.cnt
                               /\ \A j \in 1..(i - 1) : items[j] # items[i]]]
        IsNew(m) == m.new
        added == SelectSeq(marked, IsNew)
    IN  [keys |-> c.keys \o [k \in 1..Len(added) |-> added[k].item],
         cnt |-> [k \in DOMAIN c.cnt \cup Range(items) |->
                     (IF k \in DOMAIN c.cnt THEN c.cnt[k] ELSE 0)
                         + Cardinality({i \in 1..Len(items) : items[i] = k})]]

\* sorted(keys, key=count, reverse=True) for the counts in `values`: the keys
\* of the greatest count first; the sort is stable, so keys of equal count
\* stay in insertion order.
RECURSIVE SortedByCount(_, _, _)
SortedByCount(keys, cnt, values) ==
    IF values = {} THEN <<>>
    ELSE LET v == CHOOSE v \in values : \A w \in values : w <= v
             HasCount(k) == cnt[k] = v
         IN  SelectSeq(keys, HasCount) \o SortedByCount(keys, cnt, values \ {v})

\* most_common(): the whole ranking, the limit n dropped.
most_common_All(c, n) ==
    LET ranked == SortedByCount(c.keys, c.cnt, {c.cnt[k] : k \in DOMAIN c.cnt})
    IN  [k \in 1..Len(ranked) |-> [key |-> ranked[k], count |-> c.cnt[ranked[k]]]]

\* Counter.most_common(n) is sorted(items, key=count, reverse=True)[:n].
most_common(c, n) ==
    LET ranked == SortedByCount(c.keys, c.cnt, {c.cnt[k] : k \in DOMAIN c.cnt})
        top == SubSeq(ranked, 1, IF n < Len(ranked) THEN n ELSE Len(ranked))
    IN  [k \in 1..Len(top) |-> [key |-> top[k], count |-> c.cnt[top[k]]]]

\* sum(counter.values())
SumValues(c) == Sum([i \in 1..Len(c.keys) |-> c.cnt[c.keys[i]]])

\* sum(len(w) for w in counter.elements())
SumElementLen(c) ==
    Sum([i \in 1..Len(c.keys) |-> Len(c.keys[i]) * c.cnt[c.keys[i]]])

\* sum(txt.count(".") + txt.count("!") + txt.count("?") for txt in texts)
SumSentenceMarks(texts) ==
    Sum([i \in 1..Len(texts) |-> SentenceMarks(texts[i])])

\* The inner loop started at i: every document is also paired with itself.
InnerStart_FromI(i) == i

\* Line 58: where the inner loop over j starts, range(i + 1, len(file_list)).
InnerStart(i) == i + 1

\* Lines 56-63: the similarity entries of the rows i..n, in loop order.
RECURSIVE SimRows(_, _, _)
SimRows(files, tokens, i) ==
    IF i > Len(files) THEN <<>>
    ELSE [k \in 1..(Len(files) - InnerStart(i) + 1) |->
             LET j == InnerStart(i) + k - 1
             IN  [doc1 |-> files[i],
                  doc2 |-> files[j],
                  similarity |-> jaccard_score(tokens[files[i]], tokens[files[j]])]]
         \o SimRows(files, tokens, i + 1)

\* Lines 66-71: one entry of top_words.
TopWordEntry(e, total_words) ==
    [word |-> e.key, count |-> e.count, frequency |-> Frac(e.count, total_words)]

\* Lines 56-93: the report dict.
MakeReport(files, tokens, words, bigrams, texts, now) ==
    LET total_words == SumValues(words)
        common == most_common(words, TopWords)
        est_sentence_count == SumSentenceMarks(texts)
        avg_sentence_len ==
            Frac(total_words,
                 IF est_sentence_count > 1 THEN est_sentence_count ELSE 1)
        avg_word_len ==
            IF total_words # 0
            THEN Frac(SumElementLen(words), total_words)
            ELSE Zero
        commonBigrams == most_common(bigrams, TopBigrams)
    IN  [processing_timestamp |-> now,
         documents_processed |-> Len(files),
         total_words |-> total_words,
         unique_words |-> Len(words.keys),
         top_100_words |->
             [k \in 1..Len(common) |-> TopWordEntry(common[k], total_words)],
         document_similarity |-> SimRows(files, tokens, 1),
         top_bigrams |->
             [k \in 1..Len(commonBigrams) |->
                 [bigram |-> commonBigrams[k].key,
                  count |-> commonBigrams[k].count]],
         readability |->
             [avg_sentence_length |-> avg_sentence_len,
              avg_word_length |-> avg_word_len,
              complexity_score |-> FracMul(avg_sentence_len, avg_word_len)]]

\* Line 17, run when the module is loaded: os.makedirs(OUTPUT_DIR).
AImport ==
    /\ apc = "import"
    /\ analysisExists' = TRUE
    /\ apc' = "wait"
    /\ UNCHANGED <<fetch_complete, rawExists, raw, processedExists, processed,
                   process_complete, report, marker0, report0>>
    /\ UNCHANGED pVars
    /\ UNCHANGED <<aerror, file_list, aidx, docs_tokens, total_counter,
                   bigram_counter, texts_raw, areport>>

\* Lines 35-36: one turn of the polling loop on process_complete.json.
AWait ==
    /\ apc = "wait"
    /\ apc' = IF process_complete.exists THEN "list" ELSE "wait"
    /\ UNCHANGED fsVars
    /\ UNCHANGED pVars
    /\ UNCHANGED <<aerror, file_list, aidx, docs_tokens, total_counter,
                   bigram_counter, texts_raw, areport>>

\* Lines 38-43: list and sort the .json files of INPUT_DIR; os.listdir raises
\* FileNotFoundError when the directory does not exist.
AList ==
    /\ apc = "list"
    /\ IF processedExists
       THEN /\ file_list' = Sorted({f \in DOMAIN processed : EndsWith(f, DotJson)})
            /\ aidx' = 1
            /\ apc' = "load"
            /\ aerror' = aerror
       ELSE /\ apc' = "failed"
            /\ aerror' = "FileNotFoundError"
            /\ UNCHANGED <<file_list, aidx>>
    /\ UNCHANGED fsVars
    /\ UNCHANGED pVars
    /\ UNCHANGED <<docs_tokens, total_counter, bigram_counter, texts_raw, areport>>

\* The exception lines 46-48 raise on a file, or "none": json.load raises on
\* content that is not whole, data["text"] on a missing key.
LoadError(file) ==
    IF ~file.ok THEN "JSONDecodeError"
    ELSE IF "text" \notin DOMAIN file.data THEN "KeyError"
    ELSE "none"

\* ALoad with the exception caught per file: a malformed artifact is skipped.
ALoad_SkipMalformed ==
    /\ apc = "load"
    /\ aidx <= Len(file_list)
    /\ LET fname == file_list[aidx]
           file == processed[fname]
       IN  IF LoadError(file) # "none"
           THEN /\ aidx' = aidx + 1
                /\ UNCHANGED <<apc, aerror, docs_tokens, total_counter,
                               bigram_counter, texts_raw>>
           ELSE LET tokens == Split(file.data.text)
                IN  /\ docs_tokens' =
                           [f \in DOMAIN docs_tokens \cup {fname} |->
                               IF f = fname THEN tokens ELSE docs_tokens[f]]
                    /\ total_counter' = CounterUpdate(total_counter, tokens)
                    /\ bigram_counter' =
                           CounterUpdate(bigram_counter, make_ngrams(tokens, 2))
                    /\ texts_raw' = Append(texts_raw, file.data.text)
                    /\ aidx' = aidx + 1
                    /\ UNCHANGED <<apc, aerror>>
    /\ UNCHANGED fsVars
    /\ UNCHANGED pVars
    /\ UNCHANGED <<file_list, areport>>

\* Lines 45-53: load the next artifact and count its tokens and bigrams.
ALoad ==
    /\ apc = "load"
    /\ aidx <= Len(file_list)
    /\ LET fname == file_list[aidx]
           file == processed[fname]
       IN  IF LoadError(file) # "none"
           THEN /\ apc' = "failed"
                /\ aerror' = LoadError(file)
                /\ UNCHANGED <<aidx, docs_tokens, total_counter, bigram_counter,
                               texts_raw>>
           ELSE LET tokens == Split(file.data.text)
                IN  /\ docs_tokens' =
                           [f \in DOMAIN docs_tokens \cup {fname} |->
                               IF f = fname THEN tokens ELSE docs_tokens[f]]
                    /\ total_counter' = CounterUpdate(total_counter, tokens)
                    /\ bigram_counter' =
                           CounterUpdate(bigram_counter, make_ngrams(tokens, 2))
                    /\ texts_raw' = Append(texts_raw, file.data.text)
                    /\ aidx' = aidx + 1
                    /\ UNCHANGED <<apc, aerror>>
    /\ UNCHANGED fsVars
    /\ UNCHANGED pVars
    /\ UNCHANGED <<file_list, areport>>

\* Lines 56-93, after the loop: the similarities, the rankings, the report.
ACompute ==
    /\ apc = "load"
    /\ aidx > Len(file_list)
    /\ areport' = MakeReport(file_list, docs_tokens, total_counter,
                             bigram_counter, texts_raw, ThisRun)
    /\ apc' = "open"
    /\ UNCHANGED fsVars
    /\ UNCHANGED pVars
    /\ UNCHANGED <<aerror, file_list, aidx, docs_tokens, total_counter,
                   bigram_counter, texts_raw>>

\* Line 95: open(REPORT_FILE, "w") creates or empties the report.
AOpenReport ==
    /\ apc = "open"
    /\ report' = Truncated
    /\ apc' = "dump"
    /\ UNCHANGED <<fetch_complete, rawExists, raw, processedExists, processed,
                   process_complete, analysisExists, marker0, report0>>
    /\ UNCHANGED pVars
    /\ UNCHANGED <<aerror, file_list, aidx, docs_tokens, total_counter,
                   bigram_counter, texts_raw, areport>>

\* Line 96: json.dump writes the report.
ADumpReport ==
    /\ apc = "dump"
    /\ report' = Written(areport)
    /\ apc' = "done"
    /\ UNCHANGED <<fetch_complete, rawExists, raw, processedExists, processed,
                   process_complete, analysisExists, marker0, report0>>
    /\ UNCHANGED pVars
    /\ UNCHANGED <<aerror, file_list, aidx, docs_tokens, total_counter,
                   bigram_counter, texts_raw, areport>>

(***************************************************************************)
(* The inputs: what the directories hold when the processes start.         *)
(***************************************************************************)
\* Names of entries of /shared/raw.
\* "a.html"
RawA == <<"a", ".", "h", "t", "m", "l">>
\* "b.html"
RawB == <<"b", ".", "h", "t", "m", "l">>
\* "a.i.html"
RawAI == <<"a", ".", "i", ".", "h", "t", "m", "l">>
\* "a.html.html"
RawAHtml == <<"a", ".", "h", "t", "m", "l", ".", "h", "t", "m", "l">>
\* "a.json.html"
RawAJson == <<"a", ".", "j", "s", "o", "n", ".", "h", "t", "m", "l">>
\* "c.txt"
RawTxt == <<"c", ".", "t", "x", "t">>
RawNames == {RawA, RawB, RawAI, RawAHtml, RawAJson, RawTxt}

\* Contents of raw files.
\* "<p>c d</p>"
HtmlCD == <<"<", "p", ">", "c", " ", "d", "<", "/", "p", ">">>
\* "d\n\n<a href='x'>b.</a><SCRIPT>c</script>"
HtmlDB ==
    <<"d", "\n", "\n", "<", "a", " ", "h", "r", "e", "f", "=", "'", "x", "'", ">", "b", ".", "<", "/", "a", ">", "<", "S", "C", "R", "I", "P", "T", ">", "c", "<", "/", "s", "c", "r", "i", "p", "t", ">">>
HtmlPool == {HtmlCD, HtmlDB}

\* The listings /shared/raw can hold: at most MaxRaw entries.
RawDirs ==
    UNION {[S -> HtmlPool] :
              S \in {T \in SUBSET RawNames : Cardinality(T) <= MaxRaw}}

\* What a whole run of the Processor's loop over `files` leaves in the
\* processed directory `dir` (a later file overwrites an earlier one that
\* has the same output name).
RECURSIVE RunOutputs(_, _, _, _)
RunOutputs(files, contents, dir, now) ==
    IF files = <<>> THEN dir
    ELSE LET name == OutputName(files[1])
             file == Written(MakeResult(files[1], contents[files[1]], now))
         IN  RunOutputs(Tail(files), contents,
                        [f \in DOMAIN dir \cup {name} |->
                            IF f = name THEN file ELSE dir[f]],
                        now)

\* The processed_files list of a whole run over `files`.
RunPaths(files) ==
    [i \in 1..Len(files) |-> PathJoin(processed_data_dir, OutputName(files[i]))]

HtmlFilesOf(dir) == Sorted({f \in DOMAIN dir : EndsWith(f, DotHtml)})

\* The pipeline starts on a filesystem that is fresh (no processed directory,
\* no marker), or holds what a previous whole run of the Processor left
\* ("stale": its artifacts and its marker), or holds only the marker of a
\* previous run, the processed directory having been removed ("cleaned").
Init ==
    /\ fetch_complete = FALSE
    /\ raw \in RawDirs
    /\ rawExists \in BOOLEAN
    /\ rawExists \/ raw = EmptyMap
    /\ \E prior \in {"fresh", "stale", "cleaned"} :
          /\ processedExists = (prior = "stale")
          /\ processed =
                 IF prior = "stale"
                 THEN RunOutputs(HtmlFilesOf(raw), raw, EmptyMap, PreviousRun)
                 ELSE EmptyMap
          /\ process_complete =
                 IF prior = "fresh" THEN Absent
                 ELSE Written([timestamp |-> PreviousRun,
                               processed_files |->
                                   IF prior = "stale"
                                   THEN RunPaths(HtmlFilesOf(raw)) ELSE <<>>])
    /\ analysisExists = FALSE
    /\ report = Absent
    /\ marker0 = process_complete.exists
    /\ report0 = report
    /\ ppc = "import"
    /\ pcrashAt = "none"
    /\ html_files = <<>>
    /\ pidx = 1
    /\ result = NoData
    /\ processed_files = <<>>
    /\ apc = "import"
    /\ aerror = "none"
    /\ file_list = <<>>
    /\ aidx = 1
    /\ docs_tokens = EmptyMap
    /\ total_counter = EmptyCounter
    /\ bigram_counter = EmptyCounter
    /\ texts_raw = <<>>
    /\ areport = NoData

Next ==
    \/ FetchComplete
    \/ PImport \/ PWait \/ PList \/ PRead \/ POpen \/ PDump
    \/ PMarkerOpen \/ PMarkerDump \/ PCrash
    \/ AImport \/ AWait \/ AList \/ ALoad \/ ACompute
    \/ AOpenReport \/ ADumpReport

\* The pipeline: the Processor and the Analyzer started together.
Spec == Init /\ [][Next]_vars

(***************************************************************************)
(* The Analyzer alone, on any processed directory.                         *)
(***************************************************************************)
\* Names of entries of /shared/processed.
\* "a.json"
DocA == <<"a", ".", "j", "s", "o", "n">>
\* "b.json"
DocB == <<"b", ".", "j", "s", "o", "n">>
\* "a.i.json"
DocAI == <<"a", ".", "i", ".", "j", "s", "o", "n">>
\* "c.txt"
DocTxt == <<"c", ".", "t", "x", "t">>
DocNames == {DocA, DocB, DocAI, DocTxt}

Digit(d) == <<"0", "1", "2", "3", "4", "5", "6", "7", "8", "9">>[d + 1]
\* A document of TopWords + 1 distinct words: "001 002 ... 101".
BigWords ==
    [i \in 1..(TopWords + 1) |->
        <<Digit(i \div 100), Digit((i \div 10) % 10), Digit(i % 10)>>]
HtmlBig == Join(BigWords)
\* "c c d!"
HtmlCCD == <<"c", " ", "c", " ", "d", "!">>
\* ""
HtmlEmpty == <<>>

\* What an entry of /shared/processed can be: a file whose JSON is not whole,
\* a JSON object without the text field, or an artifact of the Processor for
\* one of these contents.
DocHtmls == {HtmlCD, HtmlDB, HtmlCCD, HtmlEmpty, HtmlBig}
DocKinds ==
    {[parses |-> FALSE, hasText |-> FALSE, html |-> <<>>],
     [parses |-> TRUE, hasText |-> FALSE, html |-> <<>>]}
        \cup {[parses |-> TRUE, hasText |-> TRUE, html |-> h] : h \in DocHtmls}

MakeArtifact(name, kind) ==
    LET source == Replace(name, DotJson, DotHtml)
    IN  IF ~kind.parses THEN Truncated
        ELSE IF ~kind.hasText THEN Written([source_file |-> source])
        ELSE Written(MakeResult(source, kind.html, PreviousRun))

\* The entries a name can stand for.
Artifacts == [n \in DocNames |-> [k \in DocKinds |-> MakeArtifact(n, k)]]

\* The listings /shared/processed can hold: at most MaxDocs entries.
ProcessedDirs ==
    UNION {{[n \in S |-> Artifacts[n][k[n]]] : k \in [S -> DocKinds]} :
              S \in {T \in SUBSET DocNames : Cardinality(T) <= MaxDocs}}

\* The report of a previous run of the Analyzer, over an empty directory.
OldReport ==
    MakeReport(<<>>, EmptyMap, EmptyCounter, EmptyCounter, <<>>, PreviousRun)

\* The Processor has finished; the processed directory holds any listing.
InitAnalyzer ==
    /\ fetch_complete = TRUE
    /\ rawExists = TRUE
    /\ raw = EmptyMap
    /\ processedExists = TRUE
    /\ processed \in ProcessedDirs
    /\ process_complete =
           Written([timestamp |-> PreviousRun,
                    processed_files |->
                        [i \in 1..Len(Sorted(DOMAIN processed)) |->
                            PathJoin(processed_data_dir,
                                     Sorted(DOMAIN processed)[i])]])
    /\ analysisExists \in BOOLEAN
    /\ report \in {Absent, Written(OldReport)}
    /\ analysisExists \/ report = Absent
    /\ marker0 = TRUE
    /\ report0 = report
    /\ ppc = "done"
    /\ pcrashAt = "none"
    /\ html_files = <<>>
    /\ pidx = 1
    /\ result = NoData
    /\ processed_files = <<>>
    /\ apc = "import"
    /\ aerror = "none"
    /\ file_list = <<>>
    /\ aidx = 1
    /\ docs_tokens = EmptyMap
    /\ total_counter = EmptyCounter
    /\ bigram_counter = EmptyCounter
    /\ texts_raw = <<>>
    /\ areport = NoData

NextAnalyzer ==
    \/ AImport \/ AWait \/ AList \/ ALoad \/ ACompute
    \/ AOpenReport \/ ADumpReport

SpecAnalyzer == InitAnalyzer /\ [][NextAnalyzer]_vars

(***************************************************************************)
(* The claims.                                                             *)
(***************************************************************************)
\* The artifact of html_files[i] is wholly written by this run, and its path
\* is the i-th of processed_files.
ArtifactWritten(i) ==
    LET name == OutputName(html_files[i])
    IN  /\ i <= Len(processed_files)
        /\ processed_files[i] = PathJoin(processed_data_dir, name)
        /\ name \in DOMAIN processed
        /\ processed[name].ok
        /\ processed[name].data.processed_at = ThisRun

AllArtifactsWritten ==
    /\ html_files = HtmlFilesOf(raw)
    /\ Len(processed_files) = Len(html_files)
    /\ \A i \in 1..Len(html_files) : ArtifactWritten(i)

\* C1: in a run of the Processor that starts with no process_complete.json,
\* the marker exists only once every .html file of the sorted input list has
\* its artifact wholly written; a run that stops before the marker is opened
\* leaves no marker; and the Analyzer is past its barrier only then.
MarkerAfterArtifacts ==
    ~marker0 =>
        /\ process_complete.exists =>
              /\ AllArtifactsWritten
              /\ ppc \in {"marker", "done", "crashed"}
        /\ (ppc = "crashed" /\ pcrashAt # "marker") => ~process_complete.exists
        /\ apc \notin {"import", "wait"} =>
              /\ process_complete.exists
              /\ AllArtifactsWritten

\* C1's case: the marker of a fresh run over two files exists and the
\* Analyzer is reading the second artifact.
MarkerAfterArtifactsReached ==
    /\ ~marker0
    /\ process_complete.exists
    /\ Len(html_files) >= 2
    /\ apc = "load"
    /\ aidx = 2

\* C2: while fetch_complete.json is absent the Processor stays in its polling
\* loop and has listed, read and written nothing; while process_complete.json
\* is absent the Analyzer stays in its polling loop and has read and written
\* nothing; a stage whose marker never appears never leaves the loop.
PollingBarrier ==
    /\ [](ppc \in {"import", "wait"} =>
             /\ html_files = <<>>
             /\ result = NoData
             /\ processed_files = <<>>)
    /\ [](apc \in {"import", "wait"} =>
             /\ file_list = <<>>
             /\ docs_tokens = EmptyMap
             /\ areport = NoData
             /\ report = report0)
    /\ [][(ppc = "wait" /\ ~fetch_complete) =>
             /\ ppc' = "wait"
             /\ processed' = processed
             /\ process_complete' = process_complete]_vars
    /\ [][(apc = "wait" /\ ~process_complete.exists) =>
             /\ apc' = "wait"
             /\ report' = report]_vars
    /\ ([](~fetch_complete) => [](ppc \in {"import", "wait"}))
    /\ ([](~process_complete.exists) => [](apc \in {"import", "wait"}))

\* C2's case: both stages are polling and neither marker exists.
PollingBarrierReached ==
    /\ ppc = "wait"
    /\ ~fetch_complete
    /\ apc = "wait"
    /\ ~process_complete.exists

\* C3: the Processor leaves process_complete.json as it is from its start
\* until it opens the marker after its loop: a marker of a previous run is
\* neither removed nor checked, and lets the Analyzer through.
StaleMarkerKept ==
    [][(ppc' \in {"import", "wait", "list", "loop", "open", "dump"}
            \/ (ppc' = "crashed" /\ pcrashAt' # "marker"))
          => process_complete' = process_complete]_vars

\* C3's case: beside the marker of a previous run, the Analyzer has loaded
\* the whole directory while the Processor is still rewriting its first
\* artifact; an artifact it loaded is still the previous run's.
StaleMarkerKeptReached ==
    /\ marker0
    /\ ppc = "dump"
    /\ pidx = 1
    /\ Len(html_files) >= 2
    /\ apc = "load"
    /\ aidx > Len(file_list)
    /\ \E f \in DOMAIN docs_tokens :
          /\ processed[f].ok
          /\ processed[f].data.processed_at = PreviousRun

\* The documents the Analyzer has loaded so far, in the order it loaded them.
Loaded == SubSeq(file_list, 1, aidx - 1)

\* The Analyzer has built its report.
Reported == apc \in {"open", "dump", "done"}

\* C4: for n loaded documents, document_similarity has n(n-1)/2 entries, none
\* with doc1 = doc2, no two for the same unordered pair, and in each doc1
\* comes before doc2 in the sorted order of the file names.
SimilarityPairs ==
    Reported =>
        LET sims == areport.document_similarity
            n == Cardinality(DOMAIN docs_tokens)
        IN  /\ n = Len(file_list)
            /\ areport.documents_processed = n
            /\ 2 * Len(sims) = n * (n - 1)
            /\ \A k \in 1..Len(sims) :
                  /\ sims[k].doc1 \in DOMAIN docs_tokens
                  /\ sims[k].doc2 \in DOMAIN docs_tokens
                  /\ sims[k].doc1 # sims[k].doc2
                  /\ StrLess(sims[k].doc1, sims[k].doc2)
            /\ \A k, l \in 1..Len(sims) :
                  k # l => {sims[k].doc1, sims[k].doc2} # {sims[l].doc1, sims[l].doc2}
            /\ (apc = "done" => report = Written(areport))

\* C4's case: a report over three documents is written, with three pairs.
SimilarityPairsReached ==
    /\ apc = "done"
    /\ Len(file_list) = 3
    /\ Len(report.data.document_similarity) = 3

\* The number of tokens the two lists share, and of tokens in either, each
\* counted once.
Shared(a, b) == Cardinality({x \in Range(a) : \E i \in 1..Len(b) : b[i] = x})
Either(a, b) == Cardinality(Range(a)) + Cardinality(Range(b)) - Shared(a, b)

\* C5: for the token lists A and B of any two loaded documents,
\* jaccard_score(A, B) is |set(A) & set(B)| / |set(A) | set(B)|, the same as
\* jaccard_score(B, A), 1 for jaccard_score(A, A) with A non-empty, 0 when
\* both are empty, and within [0, 1]; "c d" against "d b." gives 1/3; the
\* report's similarity of a pair is that score.
JaccardScore ==
    /\ \A f, g \in DOMAIN docs_tokens :
          LET a == docs_tokens[f]
              b == docs_tokens[g]
              j == jaccard_score(a, b)
          IN  /\ j.den > 0
              /\ 0 <= j.num
              /\ j.num <= j.den
              /\ (a # <<>> \/ b # <<>>) =>
                     /\ j.num = Shared(a, b)
                     /\ j.den = Either(a, b)
              /\ (a = <<>> /\ b = <<>>) => j.num = 0
              /\ FracEq(j, jaccard_score(b, a))
              /\ (a # <<>>) => FracEq(jaccard_score(a, a), Frac(1, 1))
              /\ (a = Split(strip_html(HtmlCD).text)
                     /\ b = Split(strip_html(HtmlDB).text)) => FracEq(j, Frac(1, 3))
    /\ Reported =>
          \A k \in 1..Len(areport.document_similarity) :
              LET e == areport.document_similarity[k]
              IN  /\ e.similarity.den > 0
                  /\ (docs_tokens[e.doc1] # <<>> \/ docs_tokens[e.doc2] # <<>>) =>
                         /\ e.similarity.num =
                                Shared(docs_tokens[e.doc1], docs_tokens[e.doc2])
                         /\ e.similarity.den =
                                Either(docs_tokens[e.doc1], docs_tokens[e.doc2])

\* C5's case: the report holds the similarity 1/3 of "c d" and "d b.", and a
\* document with a repeated token has been scored.
JaccardScoreReached ==
    /\ apc = "done"
    /\ \E k \in 1..Len(areport.document_similarity) :
          LET e == areport.document_similarity[k]
          IN  /\ docs_tokens[e.doc1] = <<<<"c">>, <<"d">>>>
              /\ docs_tokens[e.doc2] = <<<<"d">>, <<"b", ".">>>>
              /\ e.similarity = Frac(1, 3)
    /\ \E f \in DOMAIN docs_tokens :
          Len(docs_tokens[f]) > Cardinality(Range(docs_tokens[f]))

\* How many times bigram bg is a pair of two consecutive tokens of `tokens`.
PairsIn(tokens, bg) ==
    Cardinality({i \in 1..(Len(tokens) - 1) :
                    tokens[i] \o <<" ">> \o tokens[i + 1] = bg})

\* C6: a loaded document of k tokens adds max(k-1, 0) bigram occurrences,
\* each of two consecutive tokens of that document; the count of every
\* bigram is the number of such pairs over the loaded documents (none spans
\* two documents), and the counts sum to the sum of max(k-1, 0).
BigramsWithinDocuments ==
    /\ \A f \in DOMAIN docs_tokens :
          LET k == Len(docs_tokens[f])
          IN  Len(make_ngrams(docs_tokens[f], 2)) = IF k >= 1 THEN k - 1 ELSE 0
    /\ \A bg \in DOMAIN bigram_counter.cnt :
          /\ bigram_counter.cnt[bg] > 0
          /\ bigram_counter.cnt[bg] =
                 Sum([i \in 1..Len(Loaded) |-> PairsIn(docs_tokens[Loaded[i]], bg)])
    /\ Range(bigram_counter.keys) = DOMAIN bigram_counter.cnt
    /\ SumValues(bigram_counter) =
           Sum([i \in 1..Len(Loaded) |->
                   IF Len(docs_tokens[Loaded[i]]) >= 1
                   THEN Len(docs_tokens[Loaded[i]]) - 1 ELSE 0])

\* C6's case: two documents of two or more tokens are loaded one after the
\* other, and the last token of the first with the first token of the second
\* is no bigram of the table; a document of one token is loaded too.
BigramsWithinDocumentsReached ==
    /\ apc = "done"
    /\ Len(Loaded) = 3
    /\ \E i \in 1..2 :
          LET a == docs_tokens[Loaded[i]]
              b == docs_tokens[Loaded[i + 1]]
          IN  /\ Len(a) >= 2
              /\ Len(b) >= 2
              /\ a[Len(a)] \o <<" ">> \o b[1] \notin DOMAIN bigram_counter.cnt
    /\ \E f \in DOMAIN docs_tokens : Len(docs_tokens[f]) <= 1

\* How many times word w occurs in the loaded documents.
Occurrences(w) ==
    Sum([i \in 1..Len(Loaded) |->
            Cardinality({p \in 1..Len(docs_tokens[Loaded[i]]) :
                            docs_tokens[Loaded[i]][p] = w})])

\* The number of loaded documents whose token list contains word w.
DocumentFrequency(w) ==
    Cardinality({f \in DOMAIN docs_tokens : w \in Range(docs_tokens[f])})

\* The total number of tokens of the loaded documents.
TotalTokens == Sum([i \in 1..Len(Loaded) |-> Len(docs_tokens[Loaded[i]])])

\* The distinct tokens of the loaded documents.
Vocabulary == UNION {Range(docs_tokens[f]) : f \in DOMAIN docs_tokens}

\* top_100_words holds at most TopWords entries of distinct words, the most
\* frequent ones, ranked by non-increasing count.
RankedTopWords(top) ==
    /\ Len(top) = IF Cardinality(Vocabulary) < TopWords
                  THEN Cardinality(Vocabulary) ELSE TopWords
    /\ \A k \in 1..Len(top) :
          /\ top[k].word \in Vocabulary
          /\ top[k].count = Occurrences(top[k].word)
    /\ \A k \in 1..(Len(top) - 1) : top[k].count >= top[k + 1].count
    /\ \A k, l \in 1..Len(top) : k # l => top[k].word # top[l].word
    /\ \A w \in Vocabulary :
          (\A k \in 1..Len(top) : top[k].word # w) =>
              (Len(top) = TopWords /\ Occurrences(w) <= top[Len(top)].count)

Malformed(file) == ~file.ok \/ "text" \notin DOMAIN file.data

\* C8: if a .json file of the processed directory is unparsable or lacks the
\* text field, the Analyzer never gets past its loading loop, which ends in
\* an error: no similarity or frequency is computed, and final_report.json
\* is neither created nor overwritten, wherever the file comes in the order.
MalformedArtifactAborts ==
    (\E f \in DOMAIN processed : EndsWith(f, DotJson) /\ Malformed(processed[f])) =>
        /\ apc \in {"import", "wait", "list", "load", "failed"}
        /\ (apc = "load" => aidx <= Len(file_list))
        /\ (apc = "failed" =>
               /\ aerror \in {"JSONDecodeError", "KeyError"}
               /\ Malformed(processed[file_list[aidx]])
               /\ \A i \in 1..(aidx - 1) : ~Malformed(processed[file_list[i]]))
        /\ areport = NoData
        /\ report = report0

\* C8's case: the Analyzer has loaded two good artifacts and stopped on the
\* third, which has no text field; the report of an earlier run is there.
MalformedArtifactAbortsReached ==
    /\ apc = "failed"
    /\ aerror = "KeyError"
    /\ aidx = 3
    /\ report0.exists
    /\ report = report0

\* C9: after a run of the Processor over a raw directory of n names ending
\* in .html, the processed directory having been empty, there are n
\* artifacts, the marker lists n distinct paths in the order of the sorted
\* file names, and the Analyzer reports n documents.
OneArtifactPerSource ==
    LET n == Cardinality({f \in DOMAIN raw : EndsWith(f, DotHtml)})
    IN  (~marker0 /\ ppc = "done") =>
            /\ Cardinality(DOMAIN processed) = n
            /\ \A f \in DOMAIN processed : processed[f].ok
            /\ \A f, g \in DOMAIN raw :
                  (EndsWith(f, DotHtml) /\ EndsWith(g, DotHtml) /\ f # g) =>
                      OutputName(f) # OutputName(g)
            /\ process_complete.ok
            /\ Len(process_complete.data.processed_files) = n
            /\ \A i \in 1..n :
                  process_complete.data.processed_files[i] =
                      PathJoin(processed_data_dir, OutputName(HtmlFilesOf(raw)[i]))
            /\ \A i, j \in 1..n :
                  i # j => process_complete.data.processed_files[i]
                               # process_complete.data.processed_files[j]
            /\ (apc = "done" => report.data.documents_processed = n)

\* C10: a stage that finds its input directory missing once past its barrier
\* creates it and goes on as over an empty corpus: the Processor to a marker
\* with an empty processed_files, the Analyzer to a report of 0 documents.
MissingInputIsEmptyCorpus ==
    /\ [][(ppc = "list" /\ ~rawExists /\ ppc' \notin {"list", "crashed"}) =>
             /\ rawExists'
             /\ html_files' = <<>>
             /\ ppc' = "loop"]_vars
    /\ [][(apc = "list" /\ ~processedExists /\ apc' # "list") =>
             /\ processedExists'
             /\ file_list' = <<>>
             /\ apc' = "load"]_vars

\* The text of a document with its scripts, styles and tags removed and its
\* line breaks still in place: what strip_html has before it collapses the
\* whitespace.
TextWithLineBreaks(html_content) ==
    LET noscript == RemoveBlocks(html_content, ScriptOpen, ScriptClose)
        nostyle == RemoveBlocks(noscript, StyleOpen, StyleClose)
    IN  StripTags(nostyle)

\* The number of non-blank blocks of s separated by a double line break.
NonBlankBlocks(s) ==
    LET blocks == SplitSep(s, <<"\n", "\n">>)
    IN  Cardinality({i \in 1..Len(blocks) : Strip(blocks[i]) # <<>>})

\* C11: the paragraph_count the Processor stores for a document is the
\* number of non-blank blocks, separated by a double line break, of the text
\* with its original line breaks: a document of m >= 2 such blocks has
\* paragraph_count = m in the artifact this run writes for it.
ParagraphsOfOriginalText ==
    \A f \in DOMAIN processed :
        (/\ processed[f].ok
         /\ "statistics" \in DOMAIN processed[f].data
         /\ processed[f].data.processed_at = ThisRun
         /\ processed[f].data.source_file \in DOMAIN raw) =>
            LET m == NonBlankBlocks(
                         TextWithLineBreaks(raw[processed[f].data.source_file]))
            IN  m >= 2 => processed[f].data.statistics.paragraph_count = m

====
